---- MODULE Spec2Model ----
(***************************************************************************)
(* PharmaChain backend: the drug routes (register, transfer), the          *)
(* verification routes (verify, batch-verify) and the blockchain service   *)
(* they call, over the MongoDB collections and the Ledger (the contract).  *)
(*                                                                         *)
(* The specifications share the variables:                                 *)
(*   Spec        registration of users and drugs and ownership transfer,   *)
(*               from the empty store;                                     *)
(*   SpecVerify  verify_drug over every Ledger / store content of one      *)
(*               batch within the bounds;                                  *)
(*   SpecMany    batch_verify_drugs over lists of batch ids;               *)
(*   SpecValidate, SpecHash  validate_composition and the composition hash *)
(*               over bounded compositions;                                *)
(*   SpecRace    register_drug calls interleaved at their awaits;          *)
(*   SpecAudit   the audit routes over the contents of the batches;        *)
(*   SpecStatsRace  get_audit_statistics interleaved with register_drug;   *)
(*   SpecChain   a batch from its registration along the custody chain,    *)
(*               with the Ledger recording each transaction.               *)
(***************************************************************************)
EXTENDS Integers, Sequences, FiniteSets, TLC

VARIABLES
    users,                      \* db.users: walletAddress -> user document
    drug_composition_storage,   \* db.drug_composition_storage: batchId -> document
    drug_batches,               \* db.drug_batches: batchId -> batch master record
    ledger,                     \* the contract's drugs: batchId -> on-chain record
    now,                        \* int(time.time())
    resp,                       \* the response of the last request served
    calls,                      \* the calls in flight at an await, by call
    documents                   \* batchId -> number of documents per collection

vars == <<users, drug_composition_storage, drug_batches, ledger, now, resp,
          calls, documents>>

----------------------------------------------------------------------------
(* Bounds of the model *)

MaxHist == 2        \* longest ownership history the Ledger holds
MaxTransfers == 2   \* largest transferCount the Ledger reports
MaxTime == 3        \* the clock runs over 1..MaxTime
MaxIds == 2         \* longest list handed to batch-verify
MaxUsers == 2       \* most users registered
MaxCalls == 2       \* most register_drug calls in flight at once
MaxChain == 3       \* most transfers the Ledger records for a batch

----------------------------------------------------------------------------
(* Value universes *)

BatchIds == {"B1", "B2"}

\* the wallet addresses that requests name
Wallets == {"0xaa", "0xbb", "0xCC"}

ZeroAddress == "0x0000000000000000000000000000000000000000"

Roles == {"NONE", "MANUFACTURER", "DISTRIBUTOR", "PHARMACY", "CONSUMER", "REGULATOR"}

\* str.lower() on the strings of the model that carry upper-case letters
Lower(s) ==
    CASE s = "0xCC" -> "0xcc"
      [] s = "AB12" -> "ab12"
      [] s = "CD34" -> "cd34"
      [] s = "Paracetamol" -> "paracetamol"
      [] s = "Caffeine" -> "caffeine"
      [] s = "A" -> "a"
      [] s = "B" -> "b"
      [] s = "C" -> "c"
      [] s = "D" -> "d"
      [] s = "E" -> "e"
      [] s = "F" -> "f"
      [] s = "G" -> "g"
      [] s = "H" -> "h"
      [] s = "I" -> "i"
      [] s = "J" -> "j"
      [] OTHER -> s

\* the keys of db.users: the addresses as named and as lower-cased
WalletKeys == Wallets \cup {Lower(w) : w \in Wallets}

NoDoc == [present |-> FALSE]

\* the calls of register_drug: none in flight
CallIds == 1..MaxCalls

NoCalls == [c \in CallIds |-> [pc |-> "idle"]]

\* the number of documents of each collection per batchId, when every
\* document was inserted by a request served alone
DocumentsOf(storage, batches) ==
    [b \in BatchIds |->
        [drug_composition_storage |-> IF storage[b].present THEN 1 ELSE 0,
         drug_batches |-> IF batches[b].present THEN 1 ELSE 0]]

\* BlockchainService._role_enum_to_string
role_enum_to_string(role_num) ==
    CASE role_num = 0 -> "NONE"
      [] role_num = 1 -> "MANUFACTURER"
      [] role_num = 2 -> "DISTRIBUTOR"
      [] role_num = 3 -> "PHARMACY"
      [] role_num = 4 -> "CONSUMER"
      [] role_num = 5 -> "REGULATOR"
      [] OTHER -> "UNKNOWN"

----------------------------------------------------------------------------
(* Anomaly messages of verify_drug *)

MsgNotFound == "Batch ID not found on blockchain"
MsgExpired == "Drug has expired"
\* the arrows are U+2192 in the source
MsgIncomplete == "Incomplete ownership chain (expected: Manufacturer -> Distributor -> Pharmacy)"
MsgHashMismatch == "Composition hash mismatch - possible tampering"
MsgZeroAddress == "Suspicious transfer to zero address detected"

\* f"Suspicious transfer: same role transfer at index {i}"
MsgSameRole(i) ==
    CASE i = 0 -> "Suspicious transfer: same role transfer at index 0"
      [] i = 1 -> "Suspicious transfer: same role transfer at index 1"
      [] i = 2 -> "Suspicious transfer: same role transfer at index 2"
      [] i = 3 -> "Suspicious transfer: same role transfer at index 3"
      [] OTHER -> "Suspicious transfer: same role transfer at index 4+"

----------------------------------------------------------------------------
(* The Ledger's reads, as the blockchain service wraps them *)

\* contract.functions.verifyDrug(batch_id).call(): the record, or a revert
ContractVerifyDrug(batch_id) == ledger[batch_id]

\* BlockchainService.verify_drug: any exception of the call (the batch is
\* unknown and the call reverts, or the node is unreachable: up = FALSE)
\* becomes success = False
BlockchainService_verify_drug(batch_id, up) ==
    LET result == ContractVerifyDrug(batch_id) IN
    IF up /\ result.present
    THEN [success |-> TRUE,
          drugName |-> result.drugName,
          manufacturer |-> result.manufacturer,
          compositionHash |-> result.compositionHash,
          manufactureDate |-> result.manufactureDate,
          expiryDate |-> result.expiryDate,
          currentOwner |-> result.currentOwner,
          transferCount |-> result.transferCount]
    ELSE [success |-> FALSE]

\* one record of getDrugHistory, formatted: the role enums become strings;
\* timestamp and location are copied through and read by no rule
FormatRecord(record) ==
    [from |-> record.from, to |-> record.to,
     fromRole |-> role_enum_to_string(record.fromRole),
     toRole |-> role_enum_to_string(record.toRole)]

\* BlockchainService.get_drug_history
get_drug_history(batch_id, up) ==
    IF up /\ ledger[batch_id].present
    THEN [success |-> TRUE,
          history |-> [i \in 1..Len(ledger[batch_id].history) |->
                          FormatRecord(ledger[batch_id].history[i])]]
    ELSE [success |-> FALSE]

----------------------------------------------------------------------------
(* routes/verification.py: verify_drug *)

\* the verdict returned when the blockchain service reports no success
NotFoundVerdictEchoesNothing(batch_id) ==
    [isGenuine |-> FALSE,
     status |-> "FAKE",
     batchId |-> batch_id,
     drugName |-> "",
     manufacturer |-> "",
     compositionHash |-> "",
     currentOwner |-> "",
     manufactureDate |-> 0,
     expiryDate |-> 0,
     transferCount |-> 0,
     ownershipHistory |-> <<>>,
     anomalies |-> <<>>]

NotFoundVerdict(batch_id) ==
    [isGenuine |-> FALSE,
     status |-> "FAKE",
     batchId |-> batch_id,
     drugName |-> "Unknown",
     manufacturer |-> "Unknown",
     compositionHash |-> "",
     currentOwner |-> "",
     manufactureDate |-> 0,
     expiryDate |-> 0,
     transferCount |-> 0,
     ownershipHistory |-> <<>>,
     anomalies |-> <<MsgNotFound>>]

\* blockchain_result["expiryDate"] < current_timestamp
IsExpiredStrictOrEqual(blockchain_result, current_timestamp) ==
    blockchain_result.expiryDate <= current_timestamp

IsExpired(blockchain_result, current_timestamp) ==
    blockchain_result.expiryDate < current_timestamp

\* blockchain_result["transferCount"] < 2
IsIncomplete(blockchain_result) == blockchain_result.transferCount < 2

\* composition_data and stored_hash.lower() != blockchain_hash.lower()
HashMismatchCaseSensitive(composition_data, blockchain_result) ==
    /\ composition_data.present
    /\ composition_data.compositionHash # blockchain_result.compositionHash

HashMismatch(composition_data, blockchain_result) ==
    /\ composition_data.present
    /\ Lower(composition_data.compositionHash) # Lower(blockchain_result.compositionHash)

\* for i in range(1, len(ownership_history)): the messages of the records from
\* Python index i on (position i + 1 of the sequence)
RECURSIVE SameRoleFrom(_, _)
SameRoleFrom(ownership_history, i) ==
    IF i >= Len(ownership_history) THEN <<>>
    ELSE (IF ownership_history[i + 1].fromRole = ownership_history[i + 1].toRole
          THEN <<MsgSameRole(i)>> ELSE <<>>)
         \o SameRoleFrom(ownership_history, i + 1)

\* the same-role rule run over every record, the first included
SameRoleAnomaliesFromFirst(ownership_history) == SameRoleFrom(ownership_history, 0)

SameRoleAnomalies(ownership_history) == SameRoleFrom(ownership_history, 1)

\* for record in ownership_history: one message per record sent to the zero address
RECURSIVE ZeroAddressFrom(_, _)
ZeroAddressFrom(ownership_history, i) ==
    IF i >= Len(ownership_history) THEN <<>>
    ELSE (IF ownership_history[i + 1].to = ZeroAddress
          THEN <<MsgZeroAddress>> ELSE <<>>)
         \o ZeroAddressFrom(ownership_history, i + 1)

ZeroAddressAnomalies(ownership_history) == ZeroAddressFrom(ownership_history, 0)

\* if len(anomalies) > 0 and status_text == "GENUINE": status_text = "INCOMPLETE_CHAIN"
FinalStatusKeepsGenuine(anomalies, status_text) == status_text

FinalStatus(anomalies, status_text) ==
    IF Len(anomalies) > 0 /\ status_text = "GENUINE"
    THEN "INCOMPLETE_CHAIN" ELSE status_text

\* is_genuine = (status_text == "GENUINE")
IsGenuineUnlessFake(status_text) == status_text # "FAKE"

IsGenuine(status_text) == status_text = "GENUINE"

\* the rules with the zero-address rule run before the same-role rule
AnalyzeResultsZeroFirst(blockchain_result, ownership_history, composition_data, current_timestamp) ==
    LET expired == IsExpired(blockchain_result, current_timestamp)
        a1 == IF expired THEN <<MsgExpired>> ELSE <<>>
        s1 == IF expired THEN "EXPIRED" ELSE "GENUINE"
        a2 == a1 \o (IF IsIncomplete(blockchain_result) THEN <<MsgIncomplete>> ELSE <<>>)
        mismatch == HashMismatch(composition_data, blockchain_result)
        a3 == a2 \o (IF mismatch THEN <<MsgHashMismatch>> ELSE <<>>)
        s3 == IF mismatch THEN "FAKE" ELSE s1
        zero == ZeroAddressAnomalies(ownership_history)
        a4 == a3 \o zero
        a5 == a4 \o SameRoleAnomalies(ownership_history)
        s5 == IF Len(zero) > 0 THEN "FAKE" ELSE s3
    IN [anomalies |-> a5, status |-> FinalStatus(a5, s5)]

\* the rules, in the order of the source: the anomalies and the status
AnalyzeResults(blockchain_result, ownership_history, composition_data, current_timestamp) ==
    LET expired == IsExpired(blockchain_result, current_timestamp)
        a1 == IF expired THEN <<MsgExpired>> ELSE <<>>
        s1 == IF expired THEN "EXPIRED" ELSE "GENUINE"
        a2 == a1 \o (IF IsIncomplete(blockchain_result) THEN <<MsgIncomplete>> ELSE <<>>)
        mismatch == HashMismatch(composition_data, blockchain_result)
        a3 == a2 \o (IF mismatch THEN <<MsgHashMismatch>> ELSE <<>>)
        s3 == IF mismatch THEN "FAKE" ELSE s1
        a4 == a3 \o SameRoleAnomalies(ownership_history)
        zero == ZeroAddressAnomalies(ownership_history)
        a5 == a4 \o zero
        s5 == IF Len(zero) > 0 THEN "FAKE" ELSE s3
    IN [anomalies |-> a5, status |-> FinalStatus(a5, s5)]

\* verify_drug(batch_id, db): ledgerUp, historyUp and storeUp say whether the
\* Ledger's verify, the Ledger's history and the store's find_one answer.
\* calls lists the collaborator calls made; raised is the HTTPException 500.
verify_drug(batch_id, ledgerUp, historyUp, storeUp) ==
    LET blockchain_result == BlockchainService_verify_drug(batch_id, ledgerUp) IN
    IF ~blockchain_result.success
    THEN [raised |-> FALSE, code |-> 200, calls |-> <<"Ledger.verify">>,
          body |-> NotFoundVerdict(batch_id)]
    ELSE
    LET history_result == get_drug_history(batch_id, historyUp)
        ownership_history ==
            IF history_result.success THEN history_result.history ELSE <<>>
    IN
    IF ~storeUp
    THEN [raised |-> TRUE, code |-> 500,
          calls |-> <<"Ledger.verify", "Ledger.history", "Store.find_one">>]
    ELSE
    LET composition_data == drug_composition_storage[batch_id]
        r == AnalyzeResults(blockchain_result, ownership_history, composition_data, now)
    IN [raised |-> FALSE, code |-> 200,
        calls |-> <<"Ledger.verify", "Ledger.history", "Store.find_one">>,
        body |-> [isGenuine |-> IsGenuine(r.status),
                  status |-> r.status,
                  batchId |-> batch_id,
                  drugName |-> blockchain_result.drugName,
                  manufacturer |-> blockchain_result.manufacturer,
                  compositionHash |-> blockchain_result.compositionHash,
                  currentOwner |-> blockchain_result.currentOwner,
                  manufactureDate |-> blockchain_result.manufactureDate,
                  expiryDate |-> blockchain_result.expiryDate,
                  transferCount |-> blockchain_result.transferCount,
                  ownershipHistory |-> ownership_history,
                  anomalies |-> r.anomalies]]

\* GET /api/verify/{batch_id}
Verify ==
    \E batch_id \in BatchIds, ledgerUp \in BOOLEAN, historyUp \in BOOLEAN, storeUp \in BOOLEAN :
        /\ resp' = [op |-> "verify", batchId |-> batch_id, at |-> now,
                    ledgerUp |-> ledgerUp, historyUp |-> historyUp, storeUp |-> storeUp,
                    result |-> verify_drug(batch_id, ledgerUp, historyUp, storeUp)]
        /\ UNCHANGED <<users, drug_composition_storage, drug_batches, ledger, now, calls, documents>>

\* the clock advances
Tick ==
    /\ now < MaxTime
    /\ now' = now + 1
    /\ UNCHANGED <<users, drug_composition_storage, drug_batches, ledger, resp, calls, documents>>

----------------------------------------------------------------------------
(* SpecVerify: verify_drug over the Ledger and store contents of batch B1 *)

LedgerHashes == {"AB12", "cd34"}

StoredHashes == {"ab12"}

ExpiryDates == {2}

\* the ownership records the Ledger can hold: sent to a wallet or to the zero
\* address, between different roles or between equal roles (role enums)
HistRecords ==
    {[from |-> "0xaa", to |-> t, fromRole |-> p[1], toRole |-> p[2]] :
        t \in {"0xbb", ZeroAddress}, p \in {<<1, 2>>, <<2, 2>>}}

Histories == UNION {[1..n -> HistRecords] : n \in 0..MaxHist}

LedgerRecords ==
    {[present |-> TRUE, drugName |-> "Paracetamol", manufacturer |-> "0xaa",
      compositionHash |-> h, manufactureDate |-> 1, expiryDate |-> e,
      currentOwner |-> "0xbb", transferCount |-> tc, history |-> hist] :
        h \in LedgerHashes, e \in ExpiryDates, tc \in 0..MaxTransfers, hist \in Histories}

StorageDocs ==
    {[present |-> TRUE, drugName |-> "Paracetamol", compositionHash |-> h,
      manufacturer |-> "0xaa", expiryDate |-> e] : h \in StoredHashes, e \in ExpiryDates}

NoResp == [op |-> "none"]

InitVerify ==
    /\ users = [w \in WalletKeys |-> NoDoc]
    /\ drug_batches = [b \in BatchIds |-> NoDoc]
    /\ \E rec \in LedgerRecords \cup {NoDoc} :
          ledger = [b \in BatchIds |-> IF b = "B1" THEN rec ELSE NoDoc]
    /\ \E doc \in StorageDocs \cup {NoDoc} :
          drug_composition_storage = [b \in BatchIds |-> IF b = "B1" THEN doc ELSE NoDoc]
    /\ now = 1
    /\ resp = NoResp
    /\ calls = NoCalls
    /\ documents = DocumentsOf(drug_composition_storage, drug_batches)

NextVerify == Verify \/ Tick

SpecVerify == InitVerify /\ [][NextVerify]_vars

----------------------------------------------------------------------------
(* Claims about verify_drug, checked under SpecVerify *)

Range(seq) == {seq[i] : i \in 1..Len(seq)}

\* verify returned a verdict (it did not raise)
VerdictReturned == resp.op = "verify" /\ ~resp.result.raised

\* the Ledger knows the batch and its verify read returned the record
LedgerAnswered ==
    /\ VerdictReturned
    /\ resp.ledgerUp
    /\ ledger[resp.batchId].present

\* an off-chain record exists and its hash differs, ignoring case, from the Ledger's
StoredHashDiffers ==
    /\ drug_composition_storage[resp.batchId].present
    /\ Lower(drug_composition_storage[resp.batchId].compositionHash)
         # Lower(ledger[resp.batchId].compositionHash)

\* the history the Ledger returned holds a record sent to the zero address
ZeroAddressInHistory ==
    /\ resp.historyUp
    /\ \E i \in 1..Len(ledger[resp.batchId].history) :
          ledger[resp.batchId].history[i].to = ZeroAddress

\* the Ledger's expiryDate is before the time of the request
LedgerExpired == ledger[resp.batchId].expiryDate < resp.at

\* C1: for a batch whose record the Ledger returned, the verdict is FAKE if and
\* only if the off-chain hash differs (ignoring case) from the Ledger's hash or a
\* record of the returned history was sent to the zero address, whatever the
\* expiry and the transferCount.
C1_FakeIffMismatchOrZeroAddress ==
    LedgerAnswered =>
        (resp.result.body.status = "FAKE" <=> (StoredHashDiffers \/ ZeroAddressInHistory))

\* a hash mismatch on an expired batch with a complete chain is FAKE
C1_Witness ==
    /\ LedgerAnswered
    /\ StoredHashDiffers
    /\ ~ZeroAddressInHistory
    /\ LedgerExpired
    /\ ledger[resp.batchId].transferCount >= 2
    /\ resp.result.body.status = "FAKE"

\* C2: a batch the Ledger returned with transferCount < 2, not expired, with no
\* hash mismatch and no zero-address transfer, is INCOMPLETE_CHAIN, not genuine,
\* and carries the incomplete-chain anomaly.
C2_IncompleteChainAlone ==
    (/\ LedgerAnswered
     /\ ledger[resp.batchId].transferCount < 2
     /\ ~LedgerExpired
     /\ ~StoredHashDiffers
     /\ ~ZeroAddressInHistory)
    => /\ resp.result.body.status = "INCOMPLETE_CHAIN"
       /\ resp.result.body.isGenuine = FALSE
       /\ MsgIncomplete \in Range(resp.result.body.anomalies)

C2_Witness ==
    /\ LedgerAnswered
    /\ ledger[resp.batchId].transferCount = 1
    /\ ~LedgerExpired
    /\ ~StoredHashDiffers
    /\ ~ZeroAddressInHistory
    /\ resp.result.body.anomalies = <<MsgIncomplete>>
    /\ resp.result.body.status = "INCOMPLETE_CHAIN"

\* C3: when the Ledger has no record of the batch, verify returns without raising
\* the verdict FAKE with the single not-found anomaly and Unknown / zero / empty
\* fields, and calls neither the Ledger's history nor the store.
C3_UnknownBatchShortCircuits ==
    (resp.op = "verify" /\ ~ledger[resp.batchId].present) =>
        /\ ~resp.result.raised
        /\ resp.result.calls = <<"Ledger.verify">>
        /\ resp.result.body.status = "FAKE"
        /\ resp.result.body.isGenuine = FALSE
        /\ resp.result.body.anomalies = <<"Batch ID not found on blockchain">>
        /\ resp.result.body.drugName = "Unknown"
        /\ resp.result.body.manufacturer = "Unknown"
        /\ resp.result.body.manufactureDate = 0
        /\ resp.result.body.expiryDate = 0
        /\ resp.result.body.transferCount = 0
        /\ resp.result.body.ownershipHistory = <<>>

\* an unknown batch verified while the store is unreachable and holds a record
C3_Witness ==
    /\ resp.op = "verify"
    /\ ~ledger[resp.batchId].present
    /\ drug_composition_storage[resp.batchId].present
    /\ ~resp.storeUp
    /\ resp.result.body.status = "FAKE"

\* C4: for a batch whose record the Ledger returned, "Drug has expired" is an
\* anomaly exactly when expiryDate < now; then the status is EXPIRED if there is
\* no hash mismatch and no zero-address transfer, and FAKE otherwise.
C4_ExpiredStrictAndKept ==
    LedgerAnswered =>
        /\ (MsgExpired \in Range(resp.result.body.anomalies) <=> LedgerExpired)
        /\ (LedgerExpired /\ ~StoredHashDiffers /\ ~ZeroAddressInHistory
               => resp.result.body.status = "EXPIRED")
        /\ (LedgerExpired /\ (StoredHashDiffers \/ ZeroAddressInHistory)
               => resp.result.body.status = "FAKE")

\* an expired batch with an incomplete chain and a same-role anomaly stays EXPIRED
C4_Witness ==
    /\ LedgerAnswered
    /\ LedgerExpired
    /\ ledger[resp.batchId].transferCount < 2
    /\ MsgSameRole(1) \in Range(resp.result.body.anomalies)
    /\ resp.result.body.status = "EXPIRED"

\* C5: in every verdict, isGenuine holds exactly when the status is GENUINE, and
\* the status is GENUINE exactly when there is no anomaly.
C5_GenuineIffNoAnomaly ==
    VerdictReturned =>
        /\ (resp.result.body.isGenuine <=> resp.result.body.status = "GENUINE")
        /\ (resp.result.body.status = "GENUINE" <=> resp.result.body.anomalies = <<>>)

C5_Witness ==
    /\ VerdictReturned
    /\ resp.result.body.status = "GENUINE"
    /\ resp.result.body.isGenuine
    /\ resp.result.body.anomalies = <<>>

----------------------------------------------------------------------------
(* routes/verification.py: batch_verify_drugs *)

\* which collaborator fails while one id is verified
Outages == {"none", "ledger", "history", "store"}

\* the attributes of the dict that verify_drug returns: the methods of dict;
\* the keys of a dict ("isGenuine", "status") are not attributes of it
DictAttributes == {"get", "items", "keys", "values", "pop", "update", "copy"}

\* verification.<name> raises AttributeError
AttributeRaises(name) == name \notin DictAttributes

\* the body of the for loop: verify_drug is called as a plain function, the
\* attributes isGenuine and status are read off what it returns, and any
\* exception becomes an ERROR item
VerifyItem(batch_id, outage) ==
    LET verification == verify_drug(batch_id, outage # "ledger", outage # "history",
                                    outage # "store")
    IN  IF verification.raised
        THEN [batchId |-> batch_id, isGenuine |-> FALSE, status |-> "ERROR",
              error |-> "HTTPException"]
        ELSE IF AttributeRaises("isGenuine") \/ AttributeRaises("status")
        THEN [batchId |-> batch_id, isGenuine |-> FALSE, status |-> "ERROR",
              error |-> "AttributeError"]
        ELSE [batchId |-> batch_id, isGenuine |-> verification.body.isGenuine,
              status |-> verification.body.status]

\* a loop that loses the items whose verification raised
batch_verify_drugs_dropping(batch_ids, outages) ==
    LET items == [i \in 1..Len(batch_ids) |-> VerifyItem(batch_ids[i], outages[i])]
        kept == SelectSeq(items, LAMBDA r : r.status # "ERROR")
    IN [success |-> TRUE, totalBatches |-> Len(kept), results |-> kept]

\* batch_verify_drugs(batch_ids, db); outages[i] is the failure met on batch_ids[i]
batch_verify_drugs(batch_ids, outages) ==
    [success |-> TRUE,
     totalBatches |-> Len(batch_ids),
     results |-> [i \in 1..Len(batch_ids) |-> VerifyItem(batch_ids[i], outages[i])]]

\* POST /api/verify/batch-verify
VerifyMany ==
    \E n \in 0..MaxIds :
      \E batch_ids \in [1..n -> BatchIds], outages \in [1..n -> Outages] :
        /\ resp' = [op |-> "batch_verify", batch_ids |-> batch_ids, outages |-> outages,
                    at |-> now, result |-> batch_verify_drugs(batch_ids, outages)]
        /\ UNCHANGED <<users, drug_composition_storage, drug_batches, ledger, now, calls, documents>>

----------------------------------------------------------------------------
(* SpecMany: batch_verify_drugs over two batches *)

\* Ledger records with an empty history, a complete chain and the hash "AB12"
ManyRecords ==
    {r \in LedgerRecords : /\ r.history = <<>>
                           /\ r.transferCount = MaxTransfers
                           /\ r.compositionHash = "AB12"}

InitMany ==
    /\ users = [w \in WalletKeys |-> NoDoc]
    /\ drug_batches = [b \in BatchIds |-> NoDoc]
    /\ ledger \in [BatchIds -> ManyRecords \cup {NoDoc}]
    /\ drug_composition_storage \in [BatchIds -> StorageDocs \cup {NoDoc}]
    /\ now = 1
    /\ resp = NoResp
    /\ calls = NoCalls
    /\ documents = DocumentsOf(drug_composition_storage, drug_batches)

NextMany == VerifyMany

SpecMany == InitMany /\ [][NextMany]_vars

----------------------------------------------------------------------------
(* Claims about batch_verify_drugs, checked under SpecMany *)

\* what verify returns for item i of the last batch-verify, on the same state
VerdictOfItem(i) ==
    verify_drug(resp.batch_ids[i], resp.outages[i] # "ledger",
                resp.outages[i] # "history", resp.outages[i] # "store")

\* C9: every item of verifyMany carries the status and isGenuine that verify
\* returns for that id on the same state, and an item is ERROR only when verify
\* failed for that id.
C9_ItemsCarryVerdicts ==
    resp.op = "batch_verify" =>
        \A i \in 1..Len(resp.batch_ids) :
            /\ ~VerdictOfItem(i).raised =>
                  /\ resp.result.results[i].status = VerdictOfItem(i).body.status
                  /\ resp.result.results[i].isGenuine = VerdictOfItem(i).body.isGenuine
            /\ resp.result.results[i].status = "ERROR" => VerdictOfItem(i).raised

\* C10: verifyMany returns one result per input id, in input order, with
\* totalBatches the length of the list, whatever fails on the individual ids.
C10_OneResultPerId ==
    resp.op = "batch_verify" =>
        /\ resp.result.success
        /\ resp.result.totalBatches = Len(resp.batch_ids)
        /\ Len(resp.result.results) = Len(resp.batch_ids)
        /\ \A i \in 1..Len(resp.batch_ids) :
              resp.result.results[i].batchId = resp.batch_ids[i]

\* the store fails on the first id, a known batch, and the second id is still answered
C10_Witness ==
    /\ resp.op = "batch_verify"
    /\ Len(resp.batch_ids) >= 2
    /\ ledger[resp.batch_ids[1]].present
    /\ resp.outages[1] = "store"
    /\ resp.result.results[1].status = "ERROR"
    /\ resp.batch_ids[2] # resp.batch_ids[1]
    /\ resp.result.results[2].batchId = resp.batch_ids[2]

----------------------------------------------------------------------------
(* utils/hashing.py and utils/validation.py *)

\* the compositions that registration requests carry (name, quantity)
CompA ==
    <<[name |-> "Paracetamol", quantity |-> "500mg"],
      [name |-> "Caffeine", quantity |-> "65mg"]>>

CompB ==
    <<[name |-> "paracetamol", quantity |-> "500mg"]>>

Compositions == {CompA, CompB}

DrugNames == {"Crocin", "Generic"}

\* db.drug_composition_dataset.find_one({"drugName": ...}): the reference
\* standards loaded into the store
drug_composition_dataset(drugName) ==
    IF drugName = "Crocin"
    THEN [present |-> TRUE, standardComposition |-> CompA]
    ELSE NoDoc

\* the order of Python's str comparison on the lower-cased names of the model
NameRank(name) ==
    CASE name = "caffeine" -> 1
      [] name = "paracetamol" -> 2
      [] OTHER -> 3

\* sorted(ingredients, key=lambda x: x.get('name', '').lower()): a stable sort
RECURSIVE InsertSorted(_, _)
InsertSorted(sorted, ing) ==
    IF sorted = <<>> THEN <<ing>>
    ELSE IF NameRank(Lower(ing.name)) < NameRank(Lower(Head(sorted).name))
         THEN <<ing>> \o sorted
         ELSE <<Head(sorted)>> \o InsertSorted(Tail(sorted), ing)

RECURSIVE SortIngredients(_)
SortIngredients(ingredients) ==
    IF ingredients = <<>> THEN <<>>
    ELSE InsertSorted(SortIngredients(SubSeq(ingredients, 1, Len(ingredients) - 1)),
                      ingredients[Len(ingredients)])

\* normalize_composition: the ingredients sorted; the JSON text of a sorted list
\* is determined by the list
normalize_composition(composition) == SortIngredients(composition)

\* hashlib.sha256(text).hexdigest() on the normalized texts of the model
Sha256Hex(normalized) ==
    CASE normalized = SortIngredients(CompA) -> "ab12"
      [] normalized = SortIngredients(CompB) -> "cd34"
      [] normalized = <<>> -> "0001"
      [] normalized = <<[name |-> "Paracetamol", quantity |-> "500mg"]>> -> "0002"
      [] normalized = <<[name |-> "Paracetamol", quantity |-> "650mg"]>> -> "0003"
      [] normalized = <<[name |-> "Paracetamol", quantity |-> "500mg"],
                          [name |-> "paracetamol", quantity |-> "500mg"]>> -> "0004"
      [] normalized = <<[name |-> "Paracetamol", quantity |-> "500mg"],
                          [name |-> "Paracetamol", quantity |-> "650mg"]>> -> "0005"
      [] normalized = <<[name |-> "paracetamol", quantity |-> "500mg"],
                          [name |-> "Paracetamol", quantity |-> "500mg"]>> -> "0006"
      [] normalized = <<[name |-> "paracetamol", quantity |-> "500mg"],
                          [name |-> "Paracetamol", quantity |-> "650mg"]>> -> "0007"
      [] normalized = <<[name |-> "Paracetamol", quantity |-> "650mg"],
                          [name |-> "Paracetamol", quantity |-> "500mg"]>> -> "0008"
      [] normalized = <<[name |-> "Paracetamol", quantity |-> "650mg"],
                          [name |-> "paracetamol", quantity |-> "500mg"]>> -> "0009"
      [] normalized = <<[name |-> "Paracetamol", quantity |-> "500mg"],
                          [name |-> "paracetamol", quantity |-> "500mg"],
                          [name |-> "Paracetamol", quantity |-> "650mg"]>> -> "0010"
      [] normalized = <<[name |-> "Paracetamol", quantity |-> "500mg"],
                          [name |-> "Paracetamol", quantity |-> "650mg"],
                          [name |-> "paracetamol", quantity |-> "500mg"]>> -> "0011"
      [] normalized = <<[name |-> "paracetamol", quantity |-> "500mg"],
                          [name |-> "Paracetamol", quantity |-> "500mg"],
                          [name |-> "Paracetamol", quantity |-> "650mg"]>> -> "0012"
      [] normalized = <<[name |-> "paracetamol", quantity |-> "500mg"],
                          [name |-> "Paracetamol", quantity |-> "650mg"],
                          [name |-> "Paracetamol", quantity |-> "500mg"]>> -> "0013"
      [] normalized = <<[name |-> "Paracetamol", quantity |-> "650mg"],
                          [name |-> "Paracetamol", quantity |-> "500mg"],
                          [name |-> "paracetamol", quantity |-> "500mg"]>> -> "0014"
      [] normalized = <<[name |-> "Paracetamol", quantity |-> "650mg"],
                          [name |-> "paracetamol", quantity |-> "500mg"],
                          [name |-> "Paracetamol", quantity |-> "500mg"]>> -> "0015"
      [] normalized = <<[name |-> "Caffeine", quantity |-> "65mg"]>> -> "0016"
      [] normalized = <<[name |-> "Caffeine", quantity |-> "65mg"],
                          [name |-> "paracetamol", quantity |-> "500mg"]>> -> "0017"
      [] normalized = <<[name |-> "Caffeine", quantity |-> "65mg"],
                          [name |-> "Paracetamol", quantity |-> "650mg"]>> -> "0018"
      [] normalized = <<[name |-> "Caffeine", quantity |-> "65mg"],
                          [name |-> "Paracetamol", quantity |-> "500mg"],
                          [name |-> "paracetamol", quantity |-> "500mg"]>> -> "0019"
      [] normalized = <<[name |-> "Caffeine", quantity |-> "65mg"],
                          [name |-> "Paracetamol", quantity |-> "500mg"],
                          [name |-> "Paracetamol", quantity |-> "650mg"]>> -> "0020"
      [] normalized = <<[name |-> "Caffeine", quantity |-> "65mg"],
                          [name |-> "paracetamol", quantity |-> "500mg"],
                          [name |-> "Paracetamol", quantity |-> "500mg"]>> -> "0021"
      [] normalized = <<[name |-> "Caffeine", quantity |-> "65mg"],
                          [name |-> "paracetamol", quantity |-> "500mg"],
                          [name |-> "Paracetamol", quantity |-> "650mg"]>> -> "0022"
      [] normalized = <<[name |-> "Caffeine", quantity |-> "65mg"],
                          [name |-> "Paracetamol", quantity |-> "650mg"],
                          [name |-> "Paracetamol", quantity |-> "500mg"]>> -> "0023"
      [] normalized = <<[name |-> "Caffeine", quantity |-> "65mg"],
                          [name |-> "Paracetamol", quantity |-> "650mg"],
                          [name |-> "paracetamol", quantity |-> "500mg"]>> -> "0024"
      [] normalized = <<[name |-> "Caffeine", quantity |-> "65mg"],
                          [name |-> "Paracetamol", quantity |-> "500mg"],
                          [name |-> "paracetamol", quantity |-> "500mg"],
                          [name |-> "Paracetamol", quantity |-> "650mg"]>> -> "0025"
      [] normalized = <<[name |-> "Caffeine", quantity |-> "65mg"],
                          [name |-> "Paracetamol", quantity |-> "500mg"],
                          [name |-> "Paracetamol", quantity |-> "650mg"],
                          [name |-> "paracetamol", quantity |-> "500mg"]>> -> "0026"
      [] normalized = <<[name |-> "Caffeine", quantity |-> "65mg"],
                          [name |-> "paracetamol", quantity |-> "500mg"],
                          [name |-> "Paracetamol", quantity |-> "500mg"],
                          [name |-> "Paracetamol", quantity |-> "650mg"]>> -> "0027"
      [] normalized = <<[name |-> "Caffeine", quantity |-> "65mg"],
                          [name |-> "paracetamol", quantity |-> "500mg"],
                          [name |-> "Paracetamol", quantity |-> "650mg"],
                          [name |-> "Paracetamol", quantity |-> "500mg"]>> -> "0028"
      [] normalized = <<[name |-> "Caffeine", quantity |-> "65mg"],
                          [name |-> "Paracetamol", quantity |-> "650mg"],
                          [name |-> "Paracetamol", quantity |-> "500mg"],
                          [name |-> "paracetamol", quantity |-> "500mg"]>> -> "0029"
      [] normalized = <<[name |-> "Caffeine", quantity |-> "65mg"],
                          [name |-> "Paracetamol", quantity |-> "650mg"],
                          [name |-> "paracetamol", quantity |-> "500mg"],
                          [name |-> "Paracetamol", quantity |-> "500mg"]>> -> "0030"
      [] OTHER -> "ef56"

\* generate_composition_hash
generate_composition_hash(composition) == Sha256Hex(normalize_composition(composition))

\* verify_composition_hash
verify_composition_hash(composition, expected_hash) ==
    Lower(generate_composition_hash(composition)) = Lower(expected_hash)

\* the names of a composition, lower-cased: the keys of
\* {ing['name'].lower(): ing for ing in composition.get('ingredients', [])}
IngredientNames(composition) ==
    {Lower(composition[i].name) : i \in 1..Len(composition)}

\* the names as they are written, compared without lower-casing
IngredientNamesAsWritten(composition) ==
    {composition[i].name : i \in 1..Len(composition)}

\* validate_composition with the names compared as they are written
ValidationDetailsCaseSensitive(provided_composition, dataset_composition) ==
    LET provided_names == IngredientNamesAsWritten(provided_composition)
        dataset_names == IngredientNamesAsWritten(dataset_composition)
        missing_ingredients == dataset_names \ provided_names
        extra_ingredients == provided_names \ dataset_names
        common_ingredients == provided_names \cap dataset_names
        match_percentage ==
            IF Cardinality(dataset_names) > 0
            THEN [num |-> Cardinality(common_ingredients) * 100,
                  den |-> Cardinality(dataset_names)]
            ELSE [num |-> 0, den |-> 1]
    IN  [is_valid |-> /\ match_percentage.num >= 90 * match_percentage.den
                      /\ Cardinality(missing_ingredients) = 0,
         matchPercentage |-> match_percentage,
         missingIngredients |-> missing_ingredients,
         extraIngredients |-> extra_ingredients,
         totalProvidedIngredients |-> Cardinality(provided_names),
         totalExpectedIngredients |-> Cardinality(dataset_names)]

\* validate_composition: is_valid and validation_details. match_percentage is
\* the exact value num / den of (len(common) / len(dataset)) * 100; the float of
\* the source agrees with it on every comparison with 90 and on every whole
\* value for up to 12 reference names. The lists built from sets are sets.
ValidationDetails(provided_composition, dataset_composition) ==
    LET provided_names == IngredientNames(provided_composition)
        dataset_names == IngredientNames(dataset_composition)
        missing_ingredients == dataset_names \ provided_names
        extra_ingredients == provided_names \ dataset_names
        common_ingredients == provided_names \cap dataset_names
        match_percentage ==
            IF Cardinality(dataset_names) > 0
            THEN [num |-> Cardinality(common_ingredients) * 100,
                  den |-> Cardinality(dataset_names)]
            ELSE [num |-> 0, den |-> 1]
    IN  [is_valid |-> /\ match_percentage.num >= 90 * match_percentage.den
                      /\ Cardinality(missing_ingredients) = 0,
         matchPercentage |-> match_percentage,
         missingIngredients |-> missing_ingredients,
         extraIngredients |-> extra_ingredients,
         totalProvidedIngredients |-> Cardinality(provided_names),
         totalExpectedIngredients |-> Cardinality(dataset_names)]

\* validate_composition: is_valid
validate_composition(provided_composition, dataset_composition) ==
    ValidationDetails(provided_composition, dataset_composition).is_valid

----------------------------------------------------------------------------
(* routes/auth.py: register_user *)

\* POST /api/auth/register
RegisterUser ==
    \E walletAddress \in Wallets, role \in Roles :
        LET existing_user == users[walletAddress] IN
        IF existing_user.present
        THEN /\ resp' = [op |-> "register_user", walletAddress |-> walletAddress,
                         code |-> 400]
             /\ UNCHANGED <<users, drug_composition_storage, drug_batches, ledger, now, calls, documents>>
        ELSE /\ Cardinality({w \in WalletKeys : users[w].present}) < MaxUsers
             /\ users' = [users EXCEPT ![walletAddress] =
                             [present |-> TRUE, role |-> role]]
             /\ resp' = [op |-> "register_user", walletAddress |-> walletAddress,
                         code |-> 200]
             /\ UNCHANGED <<drug_composition_storage, drug_batches, ledger, now, calls, documents>>

----------------------------------------------------------------------------
(* routes/drugs.py: register_drug *)

\* register_drug accepting any registered user, whatever the role
RegisterCodeAnyRole(existing_batch, manufacturer, drugName, composition, ledgerOk) ==
    IF existing_batch.present THEN 400
    ELSE IF ~manufacturer.present THEN 403
    ELSE IF /\ drug_composition_dataset(drugName).present
            /\ ~validate_composition(composition,
                   drug_composition_dataset(drugName).standardComposition)
         THEN 400
    ELSE IF ~ledgerOk THEN 500
    ELSE 200

\* the status code of register_drug: the checks in the order of the source;
\* ledgerOk says whether blockchain_service.register_drug reports success
RegisterCode(existing_batch, manufacturer, drugName, composition, ledgerOk) ==
    IF existing_batch.present THEN 400
    ELSE IF ~manufacturer.present \/ manufacturer.role # "MANUFACTURER" THEN 403
    ELSE IF /\ drug_composition_dataset(drugName).present
            /\ ~validate_composition(composition,
                   drug_composition_dataset(drugName).standardComposition)
         THEN 400
    ELSE IF ~ledgerOk THEN 500
    ELSE 200

\* whether register_drug ran validate_composition on the composition and got
\* is_valid = True: only a drugName with a dataset entry is validated
RegisterValidated(code, drugName, composition) ==
    /\ code \in {200, 500}
    /\ drug_composition_dataset(drugName).present
    /\ validate_composition(composition,
           drug_composition_dataset(drugName).standardComposition)

\* the two inserts made on a failed Ledger call as well
RegisterWritesOnLedgerFailure(code) == code \in {200, 500}

\* whether register_drug reaches its two insert_one calls
RegisterWrites(code) == code = 200

\* POST /api/drugs/register
RegisterDrug ==
    \E batchId \in BatchIds, drugName \in DrugNames, composition \in Compositions,
       expiryDate \in ExpiryDates, manufacturerAddress \in Wallets, ledgerOk \in BOOLEAN :
        LET existing_batch == drug_composition_storage[batchId]
            manufacturer == users[manufacturerAddress]
            code == RegisterCode(existing_batch, manufacturer, drugName, composition, ledgerOk)
            composition_hash == generate_composition_hash(composition)
        IN  /\ resp' = [op |-> "register", batchId |-> batchId, code |-> code,
                        manufacturerAddress |-> manufacturerAddress,
                        validated |-> RegisterValidated(code, drugName, composition),
                        ledgerCalled |-> code \in {200, 500}]
            /\ IF RegisterWrites(code)
               THEN /\ drug_composition_storage' =
                          [drug_composition_storage EXCEPT ![batchId] =
                              [present |-> TRUE, drugName |-> drugName,
                               compositionHash |-> composition_hash,
                               manufacturer |-> manufacturerAddress,
                               expiryDate |-> expiryDate]]
                    /\ drug_batches' =
                          [drug_batches EXCEPT ![batchId] =
                              [present |-> TRUE,
                               manufacturer |-> Lower(manufacturerAddress),
                               currentOwner |-> Lower(manufacturerAddress)]]
               ELSE UNCHANGED <<drug_composition_storage, drug_batches>>
            /\ documents' = DocumentsOf(drug_composition_storage', drug_batches')
            /\ UNCHANGED <<users, ledger, now, calls>>

----------------------------------------------------------------------------
(* routes/drugs.py: transfer_ownership *)

valid_transfers_with_direct_sale ==
    {<<"MANUFACTURER", "DISTRIBUTOR">>,
     <<"DISTRIBUTOR", "PHARMACY">>,
     <<"DISTRIBUTOR", "DISTRIBUTOR">>,
     <<"MANUFACTURER", "PHARMACY">>}

valid_transfers ==
    {<<"MANUFACTURER", "DISTRIBUTOR">>,
     <<"DISTRIBUTOR", "PHARMACY">>,
     <<"DISTRIBUTOR", "DISTRIBUTOR">>}

\* the role pair checked before the users are known to exist
TransferCodeRolesFirst(batch, from_user, to_user, ledgerOk) ==
    IF ~batch.present THEN 404
    ELSE IF /\ from_user.present
            /\ to_user.present
            /\ <<from_user.role, to_user.role>> \in valid_transfers
         THEN (IF ledgerOk THEN 200 ELSE 500)
    ELSE IF ~from_user.present /\ ~to_user.present THEN 404
    ELSE 403

\* the status code of transfer_ownership: the checks in the order of the
\* source; ledgerOk says whether blockchain_service.transfer_ownership reports success
TransferCode(batch, from_user, to_user, ledgerOk) ==
    IF ~batch.present THEN 404
    ELSE IF ~from_user.present \/ ~to_user.present THEN 404
    ELSE IF <<from_user.role, to_user.role>> \notin valid_transfers THEN 403
    ELSE IF ~ledgerOk THEN 500
    ELSE 200

\* db.drug_batches.update_one({"batchId": ...}, {"$set": {"currentOwner": ...}}),
\* issued right after the batch is looked up and before any check: it changes
\* the document of the batch if there is one
UpdateCurrentOwner(batches, batchId, toAddress) ==
    IF batches[batchId].present
    THEN [batches EXCEPT ![batchId].currentOwner = Lower(toAddress)]
    ELSE batches

\* POST /api/drugs/transfer
Transfer ==
    \E batchId \in BatchIds, fromAddress \in Wallets, toAddress \in Wallets,
       ledgerOk \in BOOLEAN :
        LET batch == drug_batches[batchId]
            from_user == users[Lower(fromAddress)]
            to_user == users[Lower(toAddress)]
            code == TransferCode(batch, from_user, to_user, ledgerOk)
        IN  /\ drug_batches' = UpdateCurrentOwner(drug_batches, batchId, toAddress)
            /\ resp' = [op |-> "transfer", batchId |-> batchId,
                        fromAddress |-> fromAddress, toAddress |-> toAddress,
                        code |-> code, ledgerCalled |-> code \in {200, 500}]
            /\ UNCHANGED <<users, drug_composition_storage, ledger, now, calls, documents>>

----------------------------------------------------------------------------
(* Spec: the store as the requests build it, from the empty database *)

Init ==
    /\ users = [w \in WalletKeys |-> NoDoc]
    /\ drug_composition_storage = [b \in BatchIds |-> NoDoc]
    /\ drug_batches = [b \in BatchIds |-> NoDoc]
    /\ ledger = [b \in BatchIds |-> NoDoc]
    /\ now = 1
    /\ resp = NoResp
    /\ calls = NoCalls
    /\ documents = DocumentsOf(drug_composition_storage, drug_batches)

Next == RegisterUser \/ RegisterDrug \/ Transfer

Spec == Init /\ [][Next]_vars

----------------------------------------------------------------------------
(* Claims about transfer_ownership, checked under Spec *)

\* the users that the wallets of the last transfer request resolve to
SenderUser == users[Lower(resp.fromAddress)]

RecipientUser == users[Lower(resp.toAddress)]

\* the role pairs that may transfer, written out
LegalRolePair(fromRole, toRole) ==
    \/ fromRole = "MANUFACTURER" /\ toRole = "DISTRIBUTOR"
    \/ fromRole = "DISTRIBUTOR" /\ toRole = "PHARMACY"
    \/ fromRole = "DISTRIBUTOR" /\ toRole = "DISTRIBUTOR"

C7_RejectedTransferChangesNothing ==
    [][(resp'.op = "transfer" /\ resp'.code # 200) =>
          /\ drug_batches' = drug_batches
          /\ drug_composition_storage' = drug_composition_storage
          /\ users' = users]_vars

\* C8: a transfer naming an unknown batch is answered 404, and a transfer whose
\* sender or recipient resolves to no user is answered 404, whatever the roles
\* (never 403); the Ledger is not called in either case.
C8_ExistenceChecksFirst ==
    resp.op = "transfer" =>
        /\ ~drug_batches[resp.batchId].present
              => (resp.code = 404 /\ ~resp.ledgerCalled)
        /\ (~SenderUser.present \/ ~RecipientUser.present)
              => (resp.code = 404 /\ ~resp.ledgerCalled)

\* the recipient of a registered batch is unknown and the sender is a PHARMACY,
\* which may not transfer: the answer is 404
C8_Witness ==
    /\ resp.op = "transfer"
    /\ drug_batches[resp.batchId].present
    /\ SenderUser.present
    /\ SenderUser.role = "PHARMACY"
    /\ ~RecipientUser.present
    /\ resp.code = 404
    /\ ~resp.ledgerCalled

----------------------------------------------------------------------------
(* Claims about failed Ledger reads in verify_drug, checked under SpecVerify *)

\* C11: when the Ledger's verify read fails for a batch the Ledger holds, verify
\* surfaces a failure; it does not return the verdict FAKE with the anomaly
\* "Batch ID not found on blockchain".
C11_OutageIsNotUnknownBatch ==
    (resp.op = "verify" /\ ledger[resp.batchId].present /\ ~resp.ledgerUp) =>
        \/ resp.result.raised
        \/ ~(/\ resp.result.body.status = "FAKE"
             /\ MsgNotFound \in Range(resp.result.body.anomalies))

\* C12: when the Ledger's verify read succeeds and its history read fails, verify
\* surfaces the failure as an error or as an anomaly, and the batch is never
\* reported GENUINE.
C12_HistoryFailureSurfaces ==
    (resp.op = "verify" /\ ledger[resp.batchId].present /\ resp.ledgerUp
        /\ ~resp.historyUp) =>
        \/ resp.result.raised
        \/ /\ resp.result.body.status # "GENUINE"
           /\ resp.result.body.anomalies # <<>>

----------------------------------------------------------------------------
(* SpecValidate: validate_composition over submitted and reference compositions *)

\* the ten names of the reference standard
ReferenceNames == {"A", "B", "C", "D", "E", "F", "G", "H", "I", "J"}

\* the names a submission may carry: the reference names, one of them in
\* lower case, and a name outside the reference
SubmittedNames == ReferenceNames \cup {"a", "extra-ingredient"}

\* a composition with the given names, in some order
RECURSIVE CompositionOf(_)
CompositionOf(names) ==
    IF names = {} THEN <<>>
    ELSE LET n == CHOOSE x \in names : TRUE
         IN <<[name |-> n, quantity |-> "1mg"]>> \o CompositionOf(names \ {n})

\* the reference standards: ten ingredients, two ingredients, none
ReferenceCompositions ==
    {CompositionOf(ReferenceNames), CompositionOf({"A", "B"}), <<>>}

\* a call of validate_composition waiting to run, with its two arguments
ValidateRequests ==
    {[op |-> "validate_request",
      provided_composition |-> CompositionOf(names),
      dataset_composition |-> dataset_composition] :
        names \in SUBSET SubmittedNames, dataset_composition \in ReferenceCompositions}

\* validate_composition(drug_name, provided_composition, dataset_composition)
Validate ==
    /\ resp.op = "validate_request"
    /\ resp' = [op |-> "validate",
                provided_composition |-> resp.provided_composition,
                dataset_composition |-> resp.dataset_composition,
                result |-> ValidationDetails(resp.provided_composition,
                                             resp.dataset_composition)]
    /\ UNCHANGED <<users, drug_composition_storage, drug_batches, ledger, now, calls, documents>>

InitValidate ==
    /\ users = [w \in WalletKeys |-> NoDoc]
    /\ drug_composition_storage = [b \in BatchIds |-> NoDoc]
    /\ drug_batches = [b \in BatchIds |-> NoDoc]
    /\ ledger = [b \in BatchIds |-> NoDoc]
    /\ now = 1
    /\ resp \in ValidateRequests
    /\ calls = NoCalls
    /\ documents = DocumentsOf(drug_composition_storage, drug_batches)

NextValidate == Validate

SpecValidate == InitValidate /\ [][NextValidate]_vars

----------------------------------------------------------------------------
(* Claims about validate_composition, checked under SpecValidate *)

\* the lower-cased names of the last validation's submission and reference
SubmittedSet ==
    {Lower(resp.provided_composition[i].name) : i \in 1..Len(resp.provided_composition)}

ReferenceSet ==
    {Lower(resp.dataset_composition[i].name) : i \in 1..Len(resp.dataset_composition)}

\* C13: against a reference of 10 distinct ingredients, a submission with exactly
\* 9 of them has matchPercentage 90.0 and isValid true, and a submission with
\* exactly 8 of them has matchPercentage 80.0 and isValid false.
C13_NinetyPercentIsValid ==
    (resp.op = "validate" /\ Cardinality(ReferenceSet) = 10) =>
        /\ Cardinality(SubmittedSet \cap ReferenceSet) = 9 =>
              /\ resp.result.matchPercentage.num = 90 * resp.result.matchPercentage.den
              /\ resp.result.is_valid = TRUE
        /\ Cardinality(SubmittedSet \cap ReferenceSet) = 8 =>
              /\ resp.result.matchPercentage.num = 80 * resp.result.matchPercentage.den
              /\ resp.result.is_valid = FALSE

\* C14: with names compared lower-cased, matchPercentage is 100 * |common| /
\* |reference| (0 for an empty reference), isValid holds exactly when
\* matchPercentage >= 90 and no reference ingredient is missing, and adding a
\* name outside the reference to the submission changes none of isValid,
\* matchPercentage and missingIngredients and puts the name in extraIngredients.
C14_ValidationFormulaAndExtras ==
    resp.op = "validate" =>
        LET common == SubmittedSet \cap ReferenceSet
            pct == resp.result.matchPercentage
        IN  /\ ReferenceSet = {} => pct.num = 0
            /\ ReferenceSet # {} =>
                  pct.num * Cardinality(ReferenceSet) = 100 * Cardinality(common) * pct.den
            /\ resp.result.missingIngredients = ReferenceSet \ SubmittedSet
            /\ resp.result.is_valid <=>
                  (pct.num >= 90 * pct.den /\ ReferenceSet \ SubmittedSet = {})
            /\ \A e \in SubmittedNames :
                  Lower(e) \notin ReferenceSet =>
                      LET more == ValidationDetails(
                                      Append(resp.provided_composition,
                                             [name |-> e, quantity |-> "1mg"]),
                                      resp.dataset_composition)
                      IN  /\ more.is_valid = resp.result.is_valid
                          /\ more.matchPercentage = pct
                          /\ more.missingIngredients = resp.result.missingIngredients
                          /\ Lower(e) \in more.extraIngredients

\* the whole reference, one name of it written in lower case, and an extra name
C14_Witness ==
    /\ resp.op = "validate"
    /\ Cardinality(ReferenceSet) = 10
    /\ "a" \in {resp.provided_composition[i].name : i \in 1..Len(resp.provided_composition)}
    /\ "A" \notin {resp.provided_composition[i].name : i \in 1..Len(resp.provided_composition)}
    /\ resp.result.extraIngredients = {"extra-ingredient"}
    /\ resp.result.missingIngredients = {}
    /\ resp.result.is_valid

----------------------------------------------------------------------------
(* SpecHash: normalize_composition and generate_composition_hash over
   compositions and the permutations of their ingredient lists *)

MaxIngredients == 3

\* ingredients: two names equal ignoring case, one name with two quantities,
\* and a name of its own
Ingredients ==
    {[name |-> "Paracetamol", quantity |-> "500mg"],
     [name |-> "paracetamol", quantity |-> "500mg"],
     [name |-> "Paracetamol", quantity |-> "650mg"],
     [name |-> "Caffeine", quantity |-> "65mg"]}

\* ingredient lists of distinct ingredients
IngredientLists ==
    UNION {{c \in [1..n -> Ingredients] : \A i, j \in 1..n : c[i] = c[j] => i = j} :
              n \in 0..MaxIngredients}

\* the lists with the same ingredients in another order
OrdersOf(c) ==
    {d \in IngredientLists : Len(d) = Len(c) /\ Range(d) = Range(c)}

\* str.upper() of a hexadecimal digest
Upper(s) ==
    CASE s = "ab12" -> "AB12"
      [] s = "cd34" -> "CD34"
      [] s = "ef56" -> "EF56"
      [] OTHER -> s

\* a composition and a permutation of it, waiting to be hashed
HashRequests ==
    {[op |-> "hash_request", composition |-> c, permuted |-> d] :
        c \in IngredientLists, d \in IngredientLists}

\* normalize_composition, generate_composition_hash and verify_composition_hash
\* applied to the composition and to its permutation
Hash ==
    /\ resp.op = "hash_request"
    /\ resp' = [op |-> "hash",
                composition |-> resp.composition,
                permuted |-> resp.permuted,
                normalized |-> normalize_composition(resp.composition),
                normalized_permuted |-> normalize_composition(resp.permuted),
                hash |-> generate_composition_hash(resp.composition),
                hash_permuted |-> generate_composition_hash(resp.permuted),
                verified |-> verify_composition_hash(resp.composition,
                                 generate_composition_hash(resp.composition)),
                verified_upper |-> verify_composition_hash(resp.composition,
                                 Upper(generate_composition_hash(resp.composition)))]
    /\ UNCHANGED <<users, drug_composition_storage, drug_batches, ledger, now, calls, documents>>

InitHash ==
    /\ users = [w \in WalletKeys |-> NoDoc]
    /\ drug_composition_storage = [b \in BatchIds |-> NoDoc]
    /\ drug_batches = [b \in BatchIds |-> NoDoc]
    /\ ledger = [b \in BatchIds |-> NoDoc]
    /\ now = 1
    /\ resp \in {r \in HashRequests : r.permuted \in OrdersOf(r.composition)}
    /\ calls = NoCalls
    /\ documents = DocumentsOf(drug_composition_storage, drug_batches)

NextHash == Hash

SpecHash == InitHash /\ [][NextHash]_vars

\* C15: for every composition and every permutation of its ingredient list,
\* canonicalize and hash return the same result as for the original order,
\* compositions with two names equal ignoring case or one name with two
\* quantities included; and verify(c, hash(c)) is true, whatever the letter
\* case of the hash.
C15_PermutationInvariantHash ==
    resp.op = "hash" =>
        /\ resp.normalized_permuted = resp.normalized
        /\ resp.hash_permuted = resp.hash
        /\ resp.verified
        /\ resp.verified_upper

----------------------------------------------------------------------------
(* Claims about register_drug, checked under Spec *)

\* C16: every registration handed to the Ledger has first had its composition
\* validated, with is_valid true, against the reference standard of its
\* drugName, whether or not the store holds a reference standard for it.
C16_ValidatedBeforeLedger ==
    (resp.op = "register" /\ resp.ledgerCalled) => resp.validated

\* C17: a registration rejected with 400, 403 or 500 writes no composition
\* record and no batch master record, and with 400 or 403 the Ledger is not
\* invoked.
C17_RejectedRegistrationWritesNothing ==
    [][(resp'.op = "register" /\ resp'.code # 200) =>
          /\ UNCHANGED <<drug_composition_storage, drug_batches>>
          /\ resp'.code \in {400, 403} => ~resp'.ledgerCalled]_vars

\* a registration by a manufacturer that failed on the Ledger, its batch absent
C17_Witness ==
    /\ resp.op = "register"
    /\ resp.code = 500
    /\ resp.ledgerCalled
    /\ users[resp.manufacturerAddress].present
    /\ ~drug_composition_storage[resp.batchId].present
    /\ ~drug_batches[resp.batchId].present

\* the sender of the last registration is a registered MANUFACTURER
SenderIsManufacturer ==
    /\ users[resp.manufacturerAddress].present
    /\ users[resp.manufacturerAddress].role = "MANUFACTURER"

\* the batch master record of the last registration, right after its creation
CreatedByLastRegistration ==
    (resp.op = "register" /\ resp.code = 200) =>
        /\ drug_batches[resp.batchId].present
        /\ drug_batches[resp.batchId].manufacturer = Lower(resp.manufacturerAddress)
        /\ drug_batches[resp.batchId].currentOwner = drug_batches[resp.batchId].manufacturer

\* C19: each batch of the store has as manufacturer a wallet registered with
\* role MANUFACTURER when the batch was registered, its currentOwner at creation
\* is that manufacturer, and a registration by an unregistered wallet or by a
\* user of another role is rejected with 403.
C19_ManufacturerRegistered ==
    /\ \A b \in BatchIds :
          drug_batches[b].present =>
              /\ users[drug_batches[b].manufacturer].present
              /\ users[drug_batches[b].manufacturer].role = "MANUFACTURER"
    /\ CreatedByLastRegistration
    /\ (resp.op = "register" /\ ~SenderIsManufacturer) => resp.code = 403

\* C19, amended: each batch of the store has as manufacturer the lower-cased
\* address of a wallet registered with role MANUFACTURER when the batch was
\* registered (users are never removed or changed), its currentOwner at
\* creation is that manufacturer, and a registration by an unregistered wallet
\* or by a user of another role never reaches the Ledger and is rejected with
\* 403, or with 400 when the batch id already exists.
C19_ManufacturerRegisteredIgnoringCase ==
    /\ \A b \in BatchIds :
          drug_batches[b].present =>
              \E w \in WalletKeys :
                  /\ Lower(w) = drug_batches[b].manufacturer
                  /\ users[w].present
                  /\ users[w].role = "MANUFACTURER"
    /\ CreatedByLastRegistration
    /\ (resp.op = "register" /\ ~SenderIsManufacturer) =>
          /\ ~resp.ledgerCalled
          /\ \/ resp.code = 403
             \/ resp.code = 400 /\ drug_composition_storage[resp.batchId].present

\* an unregistered wallet registering a batch id that a manufacturer with a
\* mixed-case address has registered before
C19_Witness ==
    /\ resp.op = "register"
    /\ resp.code = 400
    /\ ~users[resp.manufacturerAddress].present
    /\ drug_batches[resp.batchId].present
    /\ drug_batches[resp.batchId].manufacturer = "0xcc"
    /\ users["0xCC"].present

----------------------------------------------------------------------------
(* SpecRace: register_drug calls served concurrently. A call gives way to
   the others at each await; it is modelled in three steps: the reads and the
   Ledger call (the users and the dataset do not change here, so reading them
   with the existence check loses no interleaving), the insert into
   drug_composition_storage, the insert into drug_batches. *)

\* insert_one with no unique index on the collection
DuplicateKeyNever(collection, batchId) == FALSE

\* insert_one into drug_composition_storage raises DuplicateKeyError when the
\* collection holds a document with the batchId: the unique index on batchId
DuplicateKey(collection, batchId) == collection[batchId].present

\* the response of register_drug
RegisterResponse(batchId, manufacturerAddress, code, validated) ==
    [op |-> "register", batchId |-> batchId, code |-> code,
     manufacturerAddress |-> manufacturerAddress,
     validated |-> validated,
     ledgerCalled |-> code \in {200, 500}]

\* the drug names of the concurrent calls: a name with no reference standard,
\* so that calls for one batchId can carry different compositions
RaceDrugNames == {"Generic"}

\* register_drug up to the Ledger call: the call answers with an error or
\* goes on to its inserts
RegisterChecks(c) ==
    /\ calls[c].pc = "idle"
    /\ \E batchId \in BatchIds, drugName \in RaceDrugNames, composition \in Compositions,
          expiryDate \in ExpiryDates, manufacturerAddress \in Wallets,
          ledgerOk \in BOOLEAN :
          LET code == RegisterCode(drug_composition_storage[batchId],
                                   users[manufacturerAddress], drugName,
                                   composition, ledgerOk)
              validated == RegisterValidated(code, drugName, composition)
          IN  IF code = 200
              THEN /\ calls' = [calls EXCEPT ![c] =
                                  [pc |-> "insert_storage",
                                   batchId |-> batchId,
                                   drugName |-> drugName,
                                   compositionHash |->
                                       generate_composition_hash(composition),
                                   manufacturerAddress |-> manufacturerAddress,
                                   expiryDate |-> expiryDate,
                                   validated |-> validated]]
                   /\ UNCHANGED resp
              ELSE /\ resp' = RegisterResponse(batchId, manufacturerAddress, code,
                                               validated)
                   /\ UNCHANGED calls
    /\ UNCHANGED <<users, drug_composition_storage, drug_batches, ledger, now,
                   documents>>

\* await db.drug_composition_storage.insert_one(composition_doc): a
\* DuplicateKeyError ends the call in the handler of Exception, with 500
InsertStorage(c) ==
    /\ calls[c].pc = "insert_storage"
    /\ LET batchId == calls[c].batchId IN
       IF DuplicateKey(drug_composition_storage, batchId)
       THEN /\ resp' = RegisterResponse(batchId, calls[c].manufacturerAddress, 500,
                                        calls[c].validated)
            /\ calls' = [calls EXCEPT ![c] = [pc |-> "idle"]]
            /\ UNCHANGED <<drug_composition_storage, documents>>
       ELSE /\ drug_composition_storage' =
                  IF drug_composition_storage[batchId].present
                  THEN drug_composition_storage
                  ELSE [drug_composition_storage EXCEPT ![batchId] =
                           [present |-> TRUE, drugName |-> calls[c].drugName,
                            compositionHash |-> calls[c].compositionHash,
                            manufacturer |-> calls[c].manufacturerAddress,
                            expiryDate |-> calls[c].expiryDate]]
            /\ documents' = [documents EXCEPT ![batchId].drug_composition_storage = @ + 1]
            /\ calls' = [calls EXCEPT ![c].pc = "insert_batches"]
            /\ UNCHANGED resp
    /\ UNCHANGED <<users, drug_batches, ledger, now>>

\* await db.drug_batches.insert_one({...}), a collection with no unique index,
\* and the response
InsertBatches(c) ==
    /\ calls[c].pc = "insert_batches"
    /\ LET batchId == calls[c].batchId IN
       /\ drug_batches' =
             IF drug_batches[batchId].present
             THEN drug_batches
             ELSE [drug_batches EXCEPT ![batchId] =
                      [present |-> TRUE,
                       manufacturer |-> Lower(calls[c].manufacturerAddress),
                       currentOwner |-> Lower(calls[c].manufacturerAddress)]]
       /\ documents' = [documents EXCEPT ![batchId].drug_batches = @ + 1]
       /\ resp' = RegisterResponse(batchId, calls[c].manufacturerAddress, 200,
                                   calls[c].validated)
       /\ calls' = [calls EXCEPT ![c] = [pc |-> "idle"]]
    /\ UNCHANGED <<users, drug_composition_storage, ledger, now>>

\* the store with a manufacturer and a distributor registered, and no batch
InitRace ==
    /\ users = [w \in WalletKeys |->
                   CASE w = "0xaa" -> [present |-> TRUE, role |-> "MANUFACTURER"]
                     [] w = "0xbb" -> [present |-> TRUE, role |-> "DISTRIBUTOR"]
                     [] OTHER -> NoDoc]
    /\ drug_composition_storage = [b \in BatchIds |-> NoDoc]
    /\ drug_batches = [b \in BatchIds |-> NoDoc]
    /\ ledger = [b \in BatchIds |-> NoDoc]
    /\ now = 1
    /\ resp = NoResp
    /\ calls = NoCalls
    /\ documents = DocumentsOf(drug_composition_storage, drug_batches)

NextRace ==
    \/ \E c \in CallIds : RegisterChecks(c)
    \/ \E c \in CallIds : InsertStorage(c)
    \/ \E c \in CallIds : InsertBatches(c)
    \/ Transfer

SpecRace == InitRace /\ [][NextRace]_vars

\* C18: after any interleaving of registration requests, the store holds at
\* most one composition record and at most one batch master record per
\* batchId, a record once written is not overwritten by a later registration,
\* and no operation deletes a batch record.
C18_OneRecordPerBatchId ==
    /\ [](\A b \in BatchIds :
            /\ documents[b].drug_composition_storage <= 1
            /\ documents[b].drug_batches <= 1)
    /\ [][\A b \in BatchIds :
            /\ drug_composition_storage[b].present =>
                  drug_composition_storage'[b] = drug_composition_storage[b]
            /\ drug_batches[b].present =>
                  /\ drug_batches'[b].present
                  /\ drug_batches'[b].manufacturer = drug_batches[b].manufacturer
            /\ documents'[b].drug_composition_storage >=
                  documents[b].drug_composition_storage
            /\ documents'[b].drug_batches >= documents[b].drug_batches]_vars

\* two calls passed the existence check for one batchId; one wrote both
\* records and the other ended on the duplicate key
C18_Witness ==
    /\ \A c \in CallIds : calls[c].pc = "idle"
    /\ resp.op = "register"
    /\ resp.code = 500
    /\ drug_composition_storage[resp.batchId].present
    /\ documents[resp.batchId].drug_composition_storage = 1
    /\ documents[resp.batchId].drug_batches = 1

----------------------------------------------------------------------------
(* routes/audit.py: get_audit_statistics, and SpecAudit over the Ledger and
   store contents of the batches *)

\* one pass of the loop over the stored drugs: whether the drug is counted
\* under drugsWithAnomalies; up says whether the Ledger answers for it.
\* BlockchainService.verify_drug raises nothing, so the bare except adds no case
AuditCountsAnomaly(batch_id, up) ==
    LET verification == BlockchainService_verify_drug(batch_id, up) IN
    IF verification.success
    THEN verification.transferCount < 2
    ELSE TRUE

\* get_audit_statistics; ledgerUp says for each batch whether the Ledger
\* answers, storeUp whether the store does
get_audit_statistics(ledgerUp, storeUp) ==
    IF ~storeUp THEN [raised |-> TRUE, code |-> 500]
    ELSE
    LET drugs == {b \in BatchIds : drug_composition_storage[b].present}
        total_drugs_db == Cardinality(drugs)
        total_users == Cardinality({w \in WalletKeys : users[w].present})
        current_timestamp == now
        expired_drugs ==
            Cardinality({b \in drugs :
                            drug_composition_storage[b].expiryDate < current_timestamp})
        drugs_with_anomalies ==
            Cardinality({b \in drugs : AuditCountsAnomaly(b, ledgerUp[b])})
    IN [raised |-> FALSE, code |-> 200,
        body |-> [totalDrugs |-> total_drugs_db,
                  totalUsers |-> total_users,
                  totalTransfers |-> 0,
                  drugsWithAnomalies |-> drugs_with_anomalies,
                  expiredDrugs |-> expired_drugs]]

\* GET /api/audit/statistics
Statistics ==
    \E ledgerUp \in [BatchIds -> BOOLEAN], storeUp \in BOOLEAN :
        /\ resp' = [op |-> "statistics", ledgerUp |-> ledgerUp, storeUp |-> storeUp,
                    result |-> get_audit_statistics(ledgerUp, storeUp)]
        /\ UNCHANGED <<users, drug_composition_storage, drug_batches, ledger, now,
                       calls, documents>>

\* drugs_cursor.to_list(...): the stored drugs in the order of the collection
BatchList == <<"B1", "B2">>

StoredDrugs == SelectSeq(BatchList, LAMBDA b : drug_composition_storage[b].present)

MsgVerificationFailed == "Blockchain verification failed"

\* one pass of the loop of get_drugs_with_anomalies: the entries, none or one,
\* appended for a stored drug; up says whether the Ledger answers for it
AnomalyEntries(batch_id, up, current_timestamp) ==
    LET drug == drug_composition_storage[batch_id]
        expired == drug.expiryDate < current_timestamp
        verification == BlockchainService_verify_drug(batch_id, up)
    IN  IF verification.success
        THEN LET transfer_count == verification.transferCount
                 incomplete == transfer_count < 2 /\ ~expired
                 has_anomaly == expired \/ incomplete
                 anomaly_type == IF expired THEN "Expired"
                                 ELSE "Incomplete ownership chain"
             IN  IF has_anomaly
                 THEN <<[batchId |-> batch_id,
                         hasAnomalies |-> TRUE,
                         anomalyType |-> anomaly_type,
                         ownershipCount |-> transfer_count,
                         drugName |-> drug.drugName,
                         manufacturer |-> drug.manufacturer,
                         currentOwner |-> verification.currentOwner]>>
                 ELSE <<>>
        ELSE <<[batchId |-> batch_id,
                hasAnomalies |-> TRUE,
                anomalyType |-> MsgVerificationFailed,
                ownershipCount |-> 0,
                drugName |-> drug.drugName,
                manufacturer |-> drug.manufacturer,
                currentOwner |-> "Unknown"]>>

\* the loop over the drugs, from the i-th on
RECURSIVE AnomalousDrugsFrom(_, _, _, _)
AnomalousDrugsFrom(drugs, i, ledgerUp, current_timestamp) ==
    IF i > Len(drugs) THEN <<>>
    ELSE AnomalyEntries(drugs[i], ledgerUp[drugs[i]], current_timestamp)
         \o AnomalousDrugsFrom(drugs, i + 1, ledgerUp, current_timestamp)

\* get_drugs_with_anomalies giving up, with 500, when a verification fails
get_drugs_with_anomalies_aborting(ledgerUp, storeUp) ==
    IF \/ ~storeUp
       \/ \E i \in 1..Len(StoredDrugs) :
             ~BlockchainService_verify_drug(StoredDrugs[i], ledgerUp[StoredDrugs[i]]).success
    THEN [raised |-> TRUE, code |-> 500]
    ELSE [raised |-> FALSE, code |-> 200,
          body |-> AnomalousDrugsFrom(StoredDrugs, 1, ledgerUp, now)]

\* get_drugs_with_anomalies; ledgerUp says for each batch whether the Ledger
\* answers, storeUp whether the store does
get_drugs_with_anomalies(ledgerUp, storeUp) ==
    IF ~storeUp THEN [raised |-> TRUE, code |-> 500]
    ELSE [raised |-> FALSE, code |-> 200,
          body |-> AnomalousDrugsFrom(StoredDrugs, 1, ledgerUp, now)]

\* GET /api/audit/anomalies
Anomalies ==
    \E ledgerUp \in [BatchIds -> BOOLEAN], storeUp \in BOOLEAN :
        /\ resp' = [op |-> "anomalies", ledgerUp |-> ledgerUp, storeUp |-> storeUp,
                    result |-> get_drugs_with_anomalies(ledgerUp, storeUp)]
        /\ UNCHANGED <<users, drug_composition_storage, drug_batches, ledger, now,
                       calls, documents>>

\* the Ledger records of the audited batches: any hash and transferCount, no
\* ownership records
AuditRecords == {r \in LedgerRecords : r.history = <<>>}

InitAudit ==
    /\ users = [w \in WalletKeys |-> NoDoc]
    /\ drug_batches = [b \in BatchIds |-> NoDoc]
    /\ ledger \in [BatchIds -> AuditRecords \cup {NoDoc}]
    /\ drug_composition_storage \in [BatchIds -> StorageDocs \cup {NoDoc}]
    /\ now \in 1..MaxTime
    /\ resp = NoResp
    /\ calls = NoCalls
    /\ documents = DocumentsOf(drug_composition_storage, drug_batches)

NextAudit == Statistics \/ Anomalies

SpecAudit == InitAudit /\ [][NextAudit]_vars

\* the stored batches for which verify returns a status other than GENUINE or
\* for which the Ledger call of the last statistics request failed
AnomalousBatches ==
    {b \in BatchIds :
        /\ drug_composition_storage[b].present
        /\ \/ ~resp.ledgerUp[b]
           \/ verify_drug(b, TRUE, TRUE, TRUE).body.status # "GENUINE"}

\* C20: drugsWithAnomalies of statistics equals the number of batches of the
\* store for which verify returns a status other than GENUINE or for which the
\* Ledger call failed.
C20_AnomaliesCountNonGenuine ==
    (resp.op = "statistics" /\ ~resp.result.raised) =>
        resp.result.body.drugsWithAnomalies = Cardinality(AnomalousBatches)

----------------------------------------------------------------------------
(* Claims about the order of the anomalies and the same-role rule of
   verify_drug, checked under SpecVerify *)

\* the history the rules of the last verify ran over
HistoryUsed ==
    IF resp.historyUp THEN get_drug_history(resp.batchId, TRUE).history ELSE <<>>

\* the indexes a same-role message can carry
SameRoleIndexes == 0..(MaxHist + 1)

\* the rule a message of the anomalies list comes from, 1 to 5 in rule order
RuleOf(msg) ==
    CASE msg = MsgExpired -> 1
      [] msg = MsgIncomplete -> 2
      [] msg = MsgHashMismatch -> 3
      [] msg \in {MsgSameRole(i) : i \in SameRoleIndexes} -> 4
      [] msg = MsgZeroAddress -> 5
      [] OTHER -> 0

\* the index a same-role message names
SameRoleIndex(msg) == CHOOSE i \in SameRoleIndexes : MsgSameRole(i) = msg

\* the number of places of a list that hold a message
Occurrences(list, msg) == Cardinality({i \in 1..Len(list) : list[i] = msg})

SameRoleReported ==
    {m \in Range(resp.result.body.anomalies) : RuleOf(m) = 4}

\* the positions, counted from 0, of the records of the history whose
\* fromRole equals their toRole
SameRolePositions ==
    {k \in 0..(Len(HistoryUsed) - 1) : HistoryUsed[k + 1].fromRole = HistoryUsed[k + 1].toRole}

\* the same-role rule leaves the status to the other rules: it turns GENUINE
\* into INCOMPLETE_CHAIN and never makes FAKE
SameRuleNeverFake ==
    (SameRoleReported # {} /\ ~StoredHashDiffers /\ ~ZeroAddressInHistory) =>
        /\ resp.result.body.status # "FAKE"
        /\ (~LedgerExpired /\ ledger[resp.batchId].transferCount >= 2) =>
              resp.result.body.status = "INCOMPLETE_CHAIN"

\* C24: every history record whose fromRole equals its toRole, the first
\* included, produces exactly one same-role anomaly naming its position, no
\* other record produces one, and the rule by itself never makes the status FAKE.
C24_EverySameRoleRecordReported ==
    LedgerAnswered =>
        /\ SameRoleReported = {MsgSameRole(k) : k \in SameRolePositions}
        /\ \A k \in SameRolePositions :
              Occurrences(resp.result.body.anomalies, MsgSameRole(k)) = 1
        /\ SameRuleNeverFake

\* C24, amended: every history record but the first (position 1 and up) whose
\* fromRole equals its toRole produces exactly one same-role anomaly naming its
\* position, the first record and the records with different roles produce
\* none, and the rule by itself never makes the status FAKE.
C24_SameRoleRecordsAfterFirstReported ==
    LedgerAnswered =>
        /\ SameRoleReported = {MsgSameRole(k) : k \in SameRolePositions \ {0}}
        /\ \A k \in SameRolePositions \ {0} :
              Occurrences(resp.result.body.anomalies, MsgSameRole(k)) = 1
        /\ SameRuleNeverFake

\* a history whose first two records are both same-role: one message, for
\* position 1, and the status INCOMPLETE_CHAIN
C24_Witness ==
    /\ LedgerAnswered
    /\ {0, 1} \subseteq SameRolePositions
    /\ SameRoleReported = {MsgSameRole(1)}
    /\ resp.result.body.status = "INCOMPLETE_CHAIN"

----------------------------------------------------------------------------
(* Claims about the sender of a transfer and the resolution of wallet
   addresses, checked under Spec *)

\* C26: a transfer request returns success only if its fromAddress is the
\* currentOwner of the batch in the store at the time of the request.
C26_OnlyTheOwnerTransfers ==
    [][(resp'.op = "transfer" /\ resp'.code = 200) =>
          /\ drug_batches[resp'.batchId].present
          /\ drug_batches[resp'.batchId].currentOwner = Lower(resp'.fromAddress)]_vars

\* C27: a transfer of a batch from the registered MANUFACTURER that registered
\* it to a registered DISTRIBUTOR is not rejected with 404, whatever the
\* letter case the wallet addresses were registered in.
C27_RegisteredWalletsAreFound ==
    (/\ resp.op = "transfer"
     /\ users[resp.fromAddress].present
     /\ users[resp.fromAddress].role = "MANUFACTURER"
     /\ drug_composition_storage[resp.batchId].present
     /\ drug_composition_storage[resp.batchId].manufacturer = resp.fromAddress
     /\ users[resp.toAddress].present
     /\ users[resp.toAddress].role = "DISTRIBUTOR") =>
        resp.code # 404

----------------------------------------------------------------------------
(* Claims about get_drugs_with_anomalies, checked under SpecAudit *)

\* the entries of the last anomalies response for a batch
EntriesOf(b) ==
    {i \in 1..Len(resp.result.body) : resp.result.body[i].batchId = b}

\* the Ledger's verification of a stored batch failed in the last audit request
VerificationFailed(b) ==
    /\ drug_composition_storage[b].present
    /\ ~(resp.ledgerUp[b] /\ ledger[b].present)

\* C21: in anomalies, a batch whose Ledger verification fails yields exactly
\* one entry, tagged "Blockchain verification failed" with ownershipCount 0 and
\* currentOwner "Unknown"; the failure does not fail the audit, the remaining
\* batches are still processed, and no batch appears more than once.
C21_FailedBatchIsOneEntry ==
    resp.op = "anomalies" =>
        /\ resp.storeUp => ~resp.result.raised
        /\ ~resp.result.raised =>
              \A b \in BatchIds :
                  /\ Cardinality(EntriesOf(b)) <= 1
                  /\ ~drug_composition_storage[b].present => EntriesOf(b) = {}
                  /\ VerificationFailed(b) =>
                        \E i \in EntriesOf(b) :
                            /\ resp.result.body[i].anomalyType = MsgVerificationFailed
                            /\ resp.result.body[i].ownershipCount = 0
                            /\ resp.result.body[i].currentOwner = "Unknown"
                  /\ (drug_composition_storage[b].present /\ ~VerificationFailed(b)) =>
                        (EntriesOf(b) # {} <=>
                            \/ drug_composition_storage[b].expiryDate < now
                            \/ ledger[b].transferCount < 2)

\* the first batch fails on the Ledger and the second is still reported, for
\* its incomplete chain
C21_Witness ==
    /\ resp.op = "anomalies"
    /\ ~resp.result.raised
    /\ VerificationFailed("B1")
    /\ ledger["B1"].present
    /\ Len(resp.result.body) = 2
    /\ resp.result.body[1].anomalyType = MsgVerificationFailed
    /\ resp.result.body[2].batchId = "B2"
    /\ resp.result.body[2].anomalyType = "Incomplete ownership chain"

\* C29: on the same store and Ledger at the same time, drugsWithAnomalies of
\* statistics equals the number of entries of anomalies.
C29_StatisticsAgreeWithAnomalies ==
    (resp.op = "statistics" /\ ~resp.result.raised) =>
        resp.result.body.drugsWithAnomalies =
            Len(get_drugs_with_anomalies(resp.ledgerUp, resp.storeUp).body)

----------------------------------------------------------------------------
(* SpecStatsRace: get_audit_statistics served while registrations complete.
   The call gives way at its awaits on the store: it is modelled in two
   steps, the counts and then the enumeration with the loop (the awaits of the
   loop are on blockchain_service.verify_drug, which reads no store). *)

\* total_drugs_db and total_users are counted; the call goes on to enumerate
StatisticsCount(c) ==
    /\ calls[c].pc = "idle"
    /\ calls' = [calls EXCEPT ![c] =
                    [pc |-> "enumerate",
                     total_drugs_db |->
                         Cardinality({b \in BatchIds : drug_composition_storage[b].present}),
                     total_users |->
                         Cardinality({w \in WalletKeys : users[w].present})]]
    /\ UNCHANGED <<users, drug_composition_storage, drug_batches, ledger, now, resp,
                   documents>>

\* the drugs are listed and looped over, and the response is built with the
\* counts taken before
StatisticsEnumerate(c) ==
    /\ calls[c].pc = "enumerate"
    /\ \E ledgerUp \in [BatchIds -> BOOLEAN] :
          LET drugs == {b \in BatchIds : drug_composition_storage[b].present}
              expired_drugs ==
                  Cardinality({b \in drugs : drug_composition_storage[b].expiryDate < now})
              drugs_with_anomalies ==
                  Cardinality({b \in drugs : AuditCountsAnomaly(b, ledgerUp[b])})
          IN  resp' = [op |-> "statistics", ledgerUp |-> ledgerUp, storeUp |-> TRUE,
                       result |->
                           [raised |-> FALSE, code |-> 200,
                            body |-> [totalDrugs |-> calls[c].total_drugs_db,
                                      totalUsers |-> calls[c].total_users,
                                      totalTransfers |-> 0,
                                      drugsWithAnomalies |-> drugs_with_anomalies,
                                      expiredDrugs |-> expired_drugs]]]
    /\ calls' = [calls EXCEPT ![c] = [pc |-> "idle"]]
    /\ UNCHANGED <<users, drug_composition_storage, drug_batches, ledger, now,
                   documents>>

\* the store with a manufacturer registered and no batch, at any time
InitStatsRace ==
    /\ users = [w \in WalletKeys |->
                   IF w = "0xaa" THEN [present |-> TRUE, role |-> "MANUFACTURER"]
                   ELSE NoDoc]
    /\ drug_composition_storage = [b \in BatchIds |-> NoDoc]
    /\ drug_batches = [b \in BatchIds |-> NoDoc]
    /\ ledger = [b \in BatchIds |-> NoDoc]
    /\ now \in 1..MaxTime
    /\ resp = NoResp
    /\ calls = NoCalls
    /\ documents = DocumentsOf(drug_composition_storage, drug_batches)

NextStatsRace ==
    \/ \E c \in CallIds : StatisticsCount(c)
    \/ \E c \in CallIds : StatisticsEnumerate(c)
    \/ RegisterDrug

SpecStatsRace == InitStatsRace /\ [][NextStatsRace]_vars

\* C30: every result of statistics has drugsWithAnomalies <= totalDrugs and
\* expiredDrugs <= totalDrugs, also when registrations complete between the
\* count of the batches and their enumeration.
C30_CountsWithinTotal ==
    (resp.op = "statistics" /\ ~resp.result.raised) =>
        /\ resp.result.body.drugsWithAnomalies <= resp.result.body.totalDrugs
        /\ resp.result.body.expiredDrugs <= resp.result.body.totalDrugs

----------------------------------------------------------------------------
(* SpecChain: a batch from its registration along the custody chain.
   register_drug and transfer_ownership are the routes of the source; the
   Ledger records the transactions they build, as the spec describes it
   (register, transfer, verify, history), and verify_drug reads it back. *)

\* the number the Ledger keeps for a role
RoleNumber(role) ==
    CASE role = "MANUFACTURER" -> 1
      [] role = "DISTRIBUTOR" -> 2
      [] role = "PHARMACY" -> 3
      [] role = "CONSUMER" -> 4
      [] role = "REGULATOR" -> 5
      [] OTHER -> 0

\* Ledger.register: the record of a new batch
LedgerRegister(drugName, composition_hash, manufactureDate, expiryDate, manufacturer) ==
    [present |-> TRUE, drugName |-> drugName, manufacturer |-> manufacturer,
     compositionHash |-> composition_hash, manufactureDate |-> manufactureDate,
     expiryDate |-> expiryDate, currentOwner |-> manufacturer,
     transferCount |-> 0, history |-> <<>>]

\* Ledger.transfer: one more ownership record, the new owner, the count
LedgerTransfer(record, newOwner, currentOwner, fromRole, toRole) ==
    [record EXCEPT
        !.history = Append(@, [from |-> currentOwner, to |-> newOwner,
                               fromRole |-> RoleNumber(fromRole),
                               toRole |-> RoleNumber(toRole)]),
        !.currentOwner = newOwner,
        !.transferCount = @ + 1]

\* composition_doc with the hash of another composition
composition_doc_rehashed(drugName, composition_hash, manufacturerAddress, expiryDate) ==
    [present |-> TRUE, drugName |-> drugName,
     compositionHash |-> Sha256Hex(<<>>),
     manufacturer |-> manufacturerAddress,
     expiryDate |-> expiryDate]

\* composition_doc of register_drug, built with the hash handed to the Ledger
composition_doc(drugName, composition_hash, manufacturerAddress, expiryDate) ==
    [present |-> TRUE, drugName |-> drugName,
     compositionHash |-> composition_hash,
     manufacturer |-> manufacturerAddress,
     expiryDate |-> expiryDate]

\* the batch and the wallets of the chain: a manufacturer, two distributors
\* and a pharmacy, registered with lower-case addresses
ChainBatchIds == {"B1"}

ChainWallets == {"0xaa", "0xbb", "0xdd", "0xcc"}

ChainUsers ==
    [w \in WalletKeys \cup ChainWallets |->
        CASE w = "0xaa" -> [present |-> TRUE, role |-> "MANUFACTURER"]
          [] w = "0xbb" -> [present |-> TRUE, role |-> "DISTRIBUTOR"]
          [] w = "0xdd" -> [present |-> TRUE, role |-> "DISTRIBUTOR"]
          [] w = "0xcc" -> [present |-> TRUE, role |-> "PHARMACY"]
          [] OTHER -> NoDoc]

\* POST /api/drugs/register, and the Ledger recording the transaction
RegisterRecorded ==
    \E batchId \in ChainBatchIds, drugName \in DrugNames, composition \in Compositions,
       expiryDate \in ExpiryDates, manufacturerAddress \in ChainWallets,
       ledgerOk \in BOOLEAN :
        LET code == RegisterCode(drug_composition_storage[batchId],
                                 users[manufacturerAddress], drugName, composition,
                                 ledgerOk)
            composition_hash == generate_composition_hash(composition)
        IN  /\ resp' = RegisterResponse(batchId, manufacturerAddress, code,
                           RegisterValidated(code, drugName, composition))
            /\ IF RegisterWrites(code)
               THEN /\ ledger' = [ledger EXCEPT ![batchId] =
                                     LedgerRegister(drugName, composition_hash, 1,
                                                    expiryDate, manufacturerAddress)]
                    /\ drug_composition_storage' =
                          [drug_composition_storage EXCEPT ![batchId] =
                              composition_doc(drugName, composition_hash,
                                              manufacturerAddress, expiryDate)]
                    /\ drug_batches' =
                          [drug_batches EXCEPT ![batchId] =
                              [present |-> TRUE,
                               manufacturer |-> Lower(manufacturerAddress),
                               currentOwner |-> Lower(manufacturerAddress)]]
               ELSE UNCHANGED <<ledger, drug_composition_storage, drug_batches>>
            /\ documents' = DocumentsOf(drug_composition_storage', drug_batches')
            /\ UNCHANGED <<users, now, calls>>

\* POST /api/drugs/transfer, and the Ledger recording the transaction when the
\* sender is the owner it knows
TransferRecorded ==
    \E batchId \in ChainBatchIds, fromAddress \in ChainWallets, toAddress \in ChainWallets,
       ledgerOk \in BOOLEAN :
        LET batch == drug_batches[batchId]
            from_user == users[Lower(fromAddress)]
            to_user == users[Lower(toAddress)]
            code == TransferCode(batch, from_user, to_user, ledgerOk)
            recorded == /\ code = 200
                        /\ ledger[batchId].present
                        /\ ledger[batchId].currentOwner = fromAddress
        IN  /\ recorded => Len(ledger[batchId].history) < MaxChain
            /\ drug_batches' = UpdateCurrentOwner(drug_batches, batchId, toAddress)
            /\ ledger' = IF recorded
                         THEN [ledger EXCEPT ![batchId] =
                                  LedgerTransfer(@, toAddress, fromAddress,
                                                 from_user.role, to_user.role)]
                         ELSE ledger
            /\ resp' = [op |-> "transfer", batchId |-> batchId,
                        fromAddress |-> fromAddress, toAddress |-> toAddress,
                        code |-> code, ledgerCalled |-> code \in {200, 500}]
            /\ UNCHANGED <<users, drug_composition_storage, now, calls, documents>>

InitChain ==
    /\ users = ChainUsers
    /\ drug_composition_storage = [b \in BatchIds |-> NoDoc]
    /\ drug_batches = [b \in BatchIds |-> NoDoc]
    /\ ledger = [b \in BatchIds |-> NoDoc]
    /\ now = 1
    /\ resp = NoResp
    /\ calls = NoCalls
    /\ documents = DocumentsOf(drug_composition_storage, drug_batches)

NextChain == RegisterRecorded \/ TransferRecorded \/ Verify

SpecChain == InitChain /\ [][NextChain]_vars

\* every record of the history the Ledger holds for the verified batch is a
\* transfer the custody table permits
OnlyLegalTransfers ==
    \A i \in 1..Len(ledger[resp.batchId].history) :
        <<role_enum_to_string(ledger[resp.batchId].history[i].fromRole),
          role_enum_to_string(ledger[resp.batchId].history[i].toRole)>> \in valid_transfers

\* every record of that history moves the batch from one wallet to another
HopsBetweenWallets ==
    \A i \in 1..Len(ledger[resp.batchId].history) :
        ledger[resp.batchId].history[i].from # ledger[resp.batchId].history[i].to

\* the verified batch has reached a pharmacy
ReachedPharmacy ==
    /\ ledger[resp.batchId].history # <<>>
    /\ role_enum_to_string(
           ledger[resp.batchId].history[Len(ledger[resp.batchId].history)].toRole)
         = "PHARMACY"

\* C25: a batch registered and then moved only by transfers the custody
\* table permits, that reached a pharmacy with transferCount >= 2, is
\* unexpired and whose off-chain hash equals the Ledger's, is verified GENUINE.
C25_LegalChainIsGenuine ==
    (/\ LedgerAnswered
     /\ resp.historyUp
     /\ OnlyLegalTransfers
     /\ HopsBetweenWallets
     /\ ReachedPharmacy
     /\ ledger[resp.batchId].transferCount >= 2
     /\ ~LedgerExpired
     /\ drug_composition_storage[resp.batchId].present
     /\ ~StoredHashDiffers) =>
        /\ resp.result.body.status = "GENUINE"
        /\ resp.result.body.anomalies = <<>>

\* C28: the compositionHash the store holds for a batch is the hash handed to
\* Ledger.register for it, no operation modifies it afterwards, and for a
\* batch registered through register_drug, whatever transfers follow, verify
\* never reports the hash-mismatch anomaly.
C28_StoredHashIsLedgerHash ==
    /\ [](/\ \A b \in BatchIds :
                (drug_composition_storage[b].present /\ ledger[b].present) =>
                    drug_composition_storage[b].compositionHash = ledger[b].compositionHash
          /\ VerdictReturned => MsgHashMismatch \notin Range(resp.result.body.anomalies))
    /\ [][\A b \in BatchIds :
            drug_composition_storage[b].present =>
                /\ drug_composition_storage'[b].present
                /\ drug_composition_storage'[b].compositionHash =
                      drug_composition_storage[b].compositionHash]_vars

\* a verdict for a registered batch that two recorded transfers have moved
C28_Witness ==
    /\ LedgerAnswered
    /\ resp.storeUp
    /\ drug_composition_storage[resp.batchId].present
    /\ ledger[resp.batchId].transferCount >= 2
    /\ drug_batches[resp.batchId].currentOwner # drug_batches[resp.batchId].manufacturer

====
